---- MODULE Spec2Model ----
(***************************************************************************)
(* gitpulse: the reactive controller of internal/ui/model.go.              *)
(*                                                                         *)
(* Model.Update is the single event loop.  One action of this module is    *)
(* one call of Update: a key event, or the completion message of one       *)
(* asynchronous task (tea.Cmd).  A task that has been dispatched and whose *)
(* completion message has not been processed yet is an element of the bag  *)
(* inflight; the result a task computes is chosen when its message is      *)
(* processed, from the outcomes the git primitives of internal/git/git.go  *)
(* can produce.                                                            *)
(*                                                                         *)
(* Go strings that are built or trimmed are sequences of tokens here:      *)
(* "" is << >>, fmt.Sprintf("pull failed: %v", err) is                     *)
(* <<"pull failed: ", err>>.  Indices are 0-based as in the source.        *)
(* Fields of RepoStatus used only for rendering (Upstream, Dirty,          *)
(* CommitSubject, CommitAge, CommitTime) and the cosmetic messages         *)
(* (tea.WindowSizeMsg, spinner.TickMsg) are left out.                      *)
(***************************************************************************)
EXTENDS Integers, Sequences, FiniteSets, Bags, TLC

\* ---------------------------------------------------------------- bounds

\* Number of configured repositories (len(cfg.Repos)).
NRepos == 2

\* Largest ahead / behind count a status probe reports.
MaxCount == 1

\* Largest number of tasks in flight (dispatched, completion not yet processed).
MaxInFlight == 2

\* Largest number of key events the operator issues in one run.
MaxKeys == 3

\* Largest number of key events of a run that starts with every record
\* waiting for an upstream.
MaxFlowKeys == 4

\* Largest number of characters typed into the add-remote text input.
MaxInput == 2

\* Number of repositories of the configurations the display order is
\* examined on.
OrderRepos == 3

\* ------------------------------------------------------------ vocabulary

NoErr == "nil"

\* The closure of a task has not run yet.
NotRun == <<>>

\* The working copies are not followed.
NotTracked == "not tracked"

ModalNone == "ModalNone"

ModalSetUpstream == "ModalSetUpstream"

ModalAddRemote == "ModalAddRemote"

\* The base names of the configured paths, in configuration order; chosen so
\* that configuration order is not name order.
RepoNames == <<"c", "a", "d", "b">>

\* Position of a single-letter string in byte order: Go's < on these strings.
Alphabet == <<"a", "b", "c", "d">>

StrLess(x, y) ==
    LET pos(s) == CHOOSE k \in 1..Len(Alphabet) : Alphabet[k] = s
    IN  pos(x) < pos(y)

\* filepath.Base of a path given as its sequence of components.
Base(path) == path[Len(path)]

\* config.RepoConfigs: one RepoConfig per configured path, Name its base name.
repos ==
    [i \in 0..(NRepos - 1) |->
        LET expanded == <<"home", RepoNames[i + 1]>>
        IN  [Path |-> expanded, Name |-> Base(expanded)]]

Indices == DOMAIN repos

\* The branch names a working copy can be on.
BranchNames == {"main"}

\* ---------------------------------------------------------------- state

VARIABLES
    statuses,         \* Model.statuses: index -> RepoStatus
    cursor,           \* Model.cursor
    fetchingAll,      \* Model.fetchingAll
    grouped,          \* Model.grouped
    quitting,         \* Model.quitting
    modalType,        \* Model.modalType
    modalRepoIndex,   \* Model.modalRepoIndex
    modalOptions,     \* Model.modalOptions
    modalCursor,      \* Model.modalCursor
    modalAfterSetup,  \* Model.modalAfterSetup
    textInput,        \* Model.textInput (its value and focus)
    modalTrigger,     \* history: the key that started the discovery whose
                      \* result opened the modal
    inflight,         \* bag of tasks dispatched and not yet completed
    event,            \* the message the last call of Update processed
    cmd,              \* the tasks the last call of Update returned
    keys,             \* number of key events the operator still issues
    panic,            \* the run-time panic that ended the program ("": none)
    world             \* the working copies on disk: index -> what a status
                      \* probe would find now (NotTracked: every probe and
                      \* every primitive may return any of its outcomes)

vars ==
    <<statuses, cursor, fetchingAll, grouped, quitting, modalType,
      modalRepoIndex, modalOptions, modalCursor, modalAfterSetup, textInput,
      modalTrigger, inflight, event, cmd, keys, panic, world>>

\* ------------------------------------------------------- git.RepoStatus

\* A zero RepoStatus with only its identity set.
NewStatus(path, name) ==
    [Path |-> path, Name |-> name, Branch |-> <<>>, Ahead |-> 0, Behind |-> 0,
     HasUpstream |-> FALSE, Error |-> NoErr, Fetching |-> FALSE,
     Rebasing |-> FALSE, Pushing |-> FALSE, LastMessage |-> <<>>]

IsSynced(s) ==
    s.HasUpstream /\ s.Ahead = 0 /\ s.Behind = 0 /\ s.Error = NoErr

NeedsPush(s) == s.HasUpstream /\ s.Ahead > 0 /\ s.Error = NoErr

NeedsPull(s) == s.HasUpstream /\ s.Behind > 0 /\ s.Error = NoErr

\* git.GetStatus: the records one probe of a working copy can return.
GetStatus(path, name) ==
    LET base == NewStatus(path, name)
    IN  {[base EXCEPT !.Error = "not a git repo"]}
        \cup {[base EXCEPT !.Branch = <<b>>] : b \in BranchNames}
        \cup {[base EXCEPT !.Branch = <<b>>, !.HasUpstream = TRUE,
                           !.Error = "failed to get ahead/behind"] :
                 b \in BranchNames}
        \cup {[base EXCEPT !.Branch = <<b>>, !.HasUpstream = TRUE,
                           !.Ahead = a, !.Behind = d] :
                 b \in BranchNames, a \in 0..MaxCount, d \in 0..MaxCount}

\* The probes the event loop is driven with: a structural error, no upstream,
\* in sync with the upstream, and ahead of it.
ProbedStatuses(path, name) ==
    {s \in GetStatus(path, name) :
        /\ s.Behind = 0
        /\ s.Error # NoErr => ~s.HasUpstream}

\* ------------------------------------------------------ display ordering

\* Mutant of statusPriority: needs-push is ranked before needs-pull.
statusPriority_PushFirst(s) ==
    IF s.Error # NoErr THEN 0
    ELSE IF NeedsPush(s) THEN 1
    ELSE IF NeedsPull(s) THEN 2
    ELSE IF IsSynced(s) THEN 3
    ELSE 4

\* statusPriority: lower values appear first when grouped.
statusPriority(s) ==
    IF s.Error # NoErr THEN 0
    ELSE IF NeedsPull(s) THEN 1
    ELSE IF NeedsPush(s) THEN 2
    ELSE IF IsSynced(s) THEN 3
    ELSE 4

\* The less function displayOrder hands to sort.Slice, on repository indices.
displayLess(sts, x, y) ==
    LET pa == statusPriority(sts[x])
        pb == statusPriority(sts[y])
    IN  IF pa # pb THEN pa < pb ELSE StrLess(sts[x].Name, sts[y].Name)

\* One pass of the inner loop of sort's insertion sort (the algorithm sort.Slice
\* runs on fewer than 12 elements): x sinks below every element it is less than.
RECURSIVE InsertSorted(_, _, _)
InsertSorted(sts, sorted, x) ==
    IF sorted = <<>> THEN <<x>>
    ELSE LET last == sorted[Len(sorted)]
             front == SubSeq(sorted, 1, Len(sorted) - 1)
         IN  IF displayLess(sts, x, last)
             THEN Append(InsertSorted(sts, front, x), last)
             ELSE Append(sorted, x)

RECURSIVE SortSlice(_, _)
SortSlice(sts, indices) ==
    IF indices = <<>> THEN <<>>
    ELSE InsertSorted(sts,
                      SortSlice(sts, SubSeq(indices, 1, Len(indices) - 1)),
                      indices[Len(indices)])

\* displayOrder of a model with the given records and grouping flag.
displayOrderOf(sts, grp) ==
    LET n == Cardinality(DOMAIN sts)
        indices == [k \in 1..n |-> k - 1]
    IN  IF grp THEN SortSlice(sts, indices) ELSE indices

displayOrder == displayOrderOf(statuses, grouped)

selectedIndex == displayOrder[cursor + 1]

\* ----------------------------------------------------------------- tasks

\* A tea.Cmd built by one of the task builders: the builder's name and the
\* values its closure captured at dispatch.  trigger is history: the key that
\* started the upstream-resolution flow the task belongs to, "F" for the
\* fetches of a fetch-all, "" otherwise.  result is what the closure returned
\* once it has run in its goroutine (only where the working copies are
\* followed; otherwise the outcome is drawn when the message is processed).
Task(kind, index, branch, remote, url, trigger) ==
    [kind |-> kind, index |-> index, branch |-> branch, remote |-> remote,
     url |-> url, trigger |-> trigger, result |-> NotRun]

refreshStatus(index) == Task("refreshStatus", index, <<>>, "", <<>>, "")

fetchRepo(index) == Task("fetchRepo", index, <<>>, "", <<>>, "")

fetchAndPull(index) == Task("fetchAndPull", index, <<>>, "", <<>>, "")

pushRepo(index) == Task("pushRepo", index, <<>>, "", <<>>, "")

loadRemotesForUpstream(index) ==
    Task("loadRemotesForUpstream", index, statuses[index].Branch, "", <<>>,
         event'.key)

setUpstream(index, remote, branch) ==
    Task("setUpstream", index, branch, remote, <<>>, modalTrigger)

pushWithUpstream(index, remote, branch) ==
    Task("pushWithUpstream", index, branch, remote, <<>>, modalTrigger)

addRemote(index, name, url) ==
    Task("addRemote", index, <<>>, name, url, modalTrigger)

fetchThenShowUpstream(index) ==
    Task("fetchThenShowUpstream", index, statuses[index].Branch, "", <<>>,
         event'.trigger)

\* tea.Batch: the bag of the tasks of a sequence.
Batch(cmds) ==
    LET range == {cmds[k] : k \in DOMAIN cmds}
    IN  [t \in range |-> Cardinality({k \in DOMAIN cmds : cmds[k] = t})]

\* -------------------------------------------------- outcomes of primitives

\* What git.Fetch, git.Pull, git.Push, git.SetUpstream, git.PushWithUpstream
\* and git.AddRemote can return.
FetchResults == {NoErr, "fetch error"}

PullResults == {NoErr, "pull error"}

PushResults == {NoErr, "push error"}

SetUpstreamResults == {NoErr, "set-upstream error"}

AddRemoteResults == {NoErr, "add-remote error"}

\* What a discovery finds: the remotes git.ListRemotes returns ("origin"
\* first, then by name), the remote-tracking branches `git branch -r` prints,
\* in its order, and the error of the two git commands (both fail, with nil
\* results, when the path is not a working copy).
Discoveries ==
    {[remotes |-> <<>>, printed |-> <<>>, err |-> NoErr],
     [remotes |-> <<>>, printed |-> <<>>, err |-> "not a git repository"],
     [remotes |-> <<[Name |-> "origin"]>>, printed |-> <<>>, err |-> NoErr],
     [remotes |-> <<[Name |-> "origin"], [Name |-> "upstream"]>>,
      printed |-> <<>>, err |-> NoErr],
     [remotes |-> <<[Name |-> "origin"], [Name |-> "upstream"]>>,
      printed |-> <<[Remote |-> "origin", Branch |-> <<"dev">>],
                    [Remote |-> "upstream", Branch |-> <<"main">>]>>,
      err |-> NoErr]}

\* git.ListRemoteBranches: the printed branches whose name is branchName, or
\* all of them when branchName is empty.
RECURSIVE ListRemoteBranches(_, _)
ListRemoteBranches(printed, branchName) ==
    IF printed = <<>> THEN <<>>
    ELSE LET rb == Head(printed)
             rest == ListRemoteBranches(Tail(printed), branchName)
         IN  IF branchName = <<>> \/ rb.Branch = branchName
             THEN <<rb>> \o rest
             ELSE rest

\* ------------------------------------------------------- task closures
\* Each returns the primitives it invoked, in order, each with the error it
\* returned (also where the closure discards it), and its message.

Call(fn, err) == [fn |-> fn, err |-> err]

\* Mutant of refreshStatusCmd: the closure reports the probe under the index of
\* the next repository.
refreshStatusCmd_WrongIndex(t, status) ==
    [calls |-> <<Call("GetStatus", NoErr)>>,
     msg |-> [type |-> "statusUpdatedMsg", index |-> (t.index + 1) % NRepos,
              status |-> status]]

refreshStatusCmd(t, status) ==
    [calls |-> <<Call("GetStatus", NoErr)>>,
     msg |-> [type |-> "statusUpdatedMsg", index |-> t.index, status |-> status]]

fetchRepoCmd(t, fetchErr) ==
    [calls |-> <<Call("Fetch", fetchErr)>>,
     msg |-> [type |-> "fetchCompleteMsg", index |-> t.index, err |-> fetchErr]]

\* Mutant of fetchAndPullCmd: pull runs whatever fetch returned.
fetchAndPullCmd_PullAnyway(t, fetchErr, pullErr) ==
    [calls |-> <<Call("Fetch", fetchErr), Call("Pull", pullErr)>>,
     msg |-> [type |-> "pullCompleteMsg", index |-> t.index, err |-> pullErr]]

fetchAndPullCmd(t, fetchErr, pullErr) ==
    IF fetchErr # NoErr
    THEN [calls |-> <<Call("Fetch", fetchErr)>>,
          msg |-> [type |-> "pullCompleteMsg", index |-> t.index, err |-> fetchErr]]
    ELSE [calls |-> <<Call("Fetch", fetchErr), Call("Pull", pullErr)>>,
          msg |-> [type |-> "pullCompleteMsg", index |-> t.index, err |-> pullErr]]

pushRepoCmd(t, pushErr) ==
    [calls |-> <<Call("Push", pushErr)>>,
     msg |-> [type |-> "pushCompleteMsg", index |-> t.index, err |-> pushErr]]

loadRemotesForUpstreamCmd(t, found) ==
    [calls |-> <<Call("ListRemotes", found.err),
                 Call("ListRemoteBranches", found.err)>>,
     msg |-> [type |-> "remotesLoadedMsg", index |-> t.index,
              remotes |-> found.remotes,
              branches |-> ListRemoteBranches(found.printed, t.branch)]]

setUpstreamCmd(t, err) ==
    [calls |-> <<Call("SetUpstream", err)>>,
     msg |-> [type |-> "upstreamSetMsg", index |-> t.index, err |-> err]]

pushWithUpstreamCmd(t, pushErr) ==
    [calls |-> <<Call("PushWithUpstream", pushErr)>>,
     msg |-> [type |-> "pushCompleteMsg", index |-> t.index, err |-> pushErr]]

addRemoteCmd(t, err) ==
    [calls |-> <<Call("AddRemote", err)>>,
     msg |-> [type |-> "remoteAddedMsg", index |-> t.index, err |-> err]]

fetchThenShowUpstreamCmd(t, fetchErr, found) ==
    IF fetchErr # NoErr
    THEN [calls |-> <<Call("Fetch", fetchErr)>>,
          msg |-> [type |-> "remotesLoadedMsg", index |-> t.index,
                   remotes |-> <<>>, branches |-> <<>>]]
    ELSE [calls |-> <<Call("Fetch", fetchErr), Call("ListRemotes", found.err),
                      Call("ListRemoteBranches", found.err)>>,
          msg |-> [type |-> "remotesLoadedMsg", index |-> t.index,
                   remotes |-> found.remotes,
                   branches |-> ListRemoteBranches(found.printed, t.branch)]]

\* ------------------------------------------------------------ text input

\* strings.TrimSpace on a sequence of characters.
RECURSIVE TrimLeft(_)
TrimLeft(v) == IF v # <<>> /\ Head(v) = " " THEN TrimLeft(Tail(v)) ELSE v

RECURSIVE TrimRight(_)
TrimRight(v) ==
    IF v # <<>> /\ v[Len(v)] = " " THEN TrimRight(SubSeq(v, 1, Len(v) - 1)) ELSE v

TrimSpace(v) == TrimRight(TrimLeft(v))

\* The characters the operator types into the add-remote input.
TypedChars == {" ", "x"}

\* -------------------------------------------------------------- Init

\* NewModel followed by Model.Init, which dispatches one refresh per repository.
InitialCmd == [k \in 1..NRepos |-> refreshStatus(k - 1)]

Init ==
    /\ statuses = [i \in Indices |-> NewStatus(repos[i].Path, repos[i].Name)]
    /\ cursor = 0
    /\ fetchingAll = FALSE
    /\ grouped = TRUE
    /\ quitting = FALSE
    /\ modalType = ModalNone
    /\ modalRepoIndex = 0
    /\ modalOptions = <<>>
    /\ modalCursor = 0
    /\ modalAfterSetup = FALSE
    /\ textInput = [Value |-> <<>>, Focused |-> FALSE]
    /\ modalTrigger = ""
    /\ inflight = Batch(InitialCmd)
    /\ event = [type |-> "Init"]
    /\ cmd = InitialCmd
    /\ keys = MaxKeys
    /\ panic = ""
    /\ world = NotTracked

\* ------------------------------------------------- one call of Update

\* Update returns newCmd: the runtime starts its tasks; consumed is the task
\* whose completion message this call processed (none for a key event).
Returns(newCmd, consumed) ==
    /\ UNCHANGED <<panic, world>>
    /\ cmd' = newCmd
    /\ inflight' = (inflight (-) consumed) (+) Batch(newCmd)
    /\ BagCardinality(inflight') <= MaxInFlight

KeyMsg(k) == [type |-> "tea.KeyMsg", key |-> k]

\* Mutant of RoutineKey: the routine bindings do not look at the modal.
RoutineKey_NoModalCheck(k) ==
    /\ ~quitting
    /\ panic = ""
    /\ keys > 0
    /\ keys' = keys - 1
    /\ event' = KeyMsg(k)

\* A key event handled by the routine bindings (no modal is active).
RoutineKey(k) ==
    /\ ~quitting
    /\ panic = ""
    /\ modalType = ModalNone
    /\ keys > 0
    /\ keys' = keys - 1
    /\ event' = KeyMsg(k)

\* A key event handled by handleModalKey.
ModalKey(k) ==
    /\ ~quitting
    /\ panic = ""
    /\ modalType # ModalNone
    /\ keys > 0
    /\ keys' = keys - 1
    /\ event' = KeyMsg(k)

\* Mutant of needsUpstream: the missing upstream is never noticed.
needsUpstream_Never(status) == FALSE

\* !status.HasUpstream && status.Error == nil: the record needs an upstream
\* set up before the requested action.
needsUpstream(status) == ~status.HasUpstream /\ status.Error = NoErr

\* showUpstreamModal
showUpstreamModal(index, afterSetup) ==
    /\ modalRepoIndex' = index
    /\ modalAfterSetup' = afterSetup
    /\ modalCursor' = 0
    /\ Returns(<<loadRemotesForUpstream(index)>>, EmptyBag)
    /\ UNCHANGED <<statuses, cursor, fetchingAll, grouped, quitting, modalType,
                   modalOptions, textInput, modalTrigger>>

\* return m, nil with the model untouched
ReturnUnchanged ==
    /\ Returns(<<>>, EmptyBag)
    /\ UNCHANGED <<statuses, cursor, fetchingAll, grouped, quitting, modalType,
                   modalRepoIndex, modalOptions, modalCursor, modalAfterSetup,
                   textInput, modalTrigger>>

\* The model's fields other than the records.
UnchangedButStatuses ==
    UNCHANGED <<cursor, fetchingAll, grouped, quitting, modalType,
                modalRepoIndex, modalOptions, modalCursor, modalAfterSetup,
                textInput, modalTrigger>>

\* The subsequence of 0..NRepos-1 (in order) of the indices satisfying want.
RECURSIVE SelectIndices(_, _)
SelectIndices(n, want) ==
    IF n = 0 THEN <<>>
    ELSE LET rest == SelectIndices(n - 1, want)
         IN  IF want[n - 1] THEN Append(rest, n - 1) ELSE rest

\* case "q", "ctrl+c", "esc"
Key_q ==
    /\ RoutineKey("q")
    /\ quitting' = TRUE
    /\ Returns(<<>>, EmptyBag)
    /\ UNCHANGED <<statuses, cursor, fetchingAll, grouped, modalType,
                   modalRepoIndex, modalOptions, modalCursor, modalAfterSetup,
                   textInput, modalTrigger>>

\* case "up", "k"
Key_up ==
    /\ RoutineKey("up")
    /\ cursor' = IF cursor > 0 THEN cursor - 1 ELSE cursor
    /\ Returns(<<>>, EmptyBag)
    /\ UNCHANGED <<statuses, fetchingAll, grouped, quitting, modalType,
                   modalRepoIndex, modalOptions, modalCursor, modalAfterSetup,
                   textInput, modalTrigger>>

\* case "down", "j"
Key_down ==
    /\ RoutineKey("down")
    /\ cursor' = IF cursor < NRepos - 1 THEN cursor + 1 ELSE cursor
    /\ Returns(<<>>, EmptyBag)
    /\ UNCHANGED <<statuses, fetchingAll, grouped, quitting, modalType,
                   modalRepoIndex, modalOptions, modalCursor, modalAfterSetup,
                   textInput, modalTrigger>>

\* Mutant of Key_f: the Fetching check is missing.
Key_f_NoBusyCheck ==
    /\ RoutineKey("f")
    /\ LET idx == selectedIndex
           status == statuses[idx]
       IN  IF needsUpstream(status)
           THEN showUpstreamModal(idx, FALSE)
           ELSE /\ statuses' = [statuses EXCEPT ![idx].Fetching = TRUE,
                                                ![idx].LastMessage = <<>>]
                /\ Returns(<<fetchRepo(idx)>>, EmptyBag)
                /\ UnchangedButStatuses

\* case "f": fetch single repo
Key_f ==
    /\ RoutineKey("f")
    /\ LET idx == selectedIndex
           status == statuses[idx]
       IN  IF status.Fetching THEN ReturnUnchanged
           ELSE IF needsUpstream(status)
           THEN showUpstreamModal(idx, FALSE)
           ELSE /\ statuses' = [statuses EXCEPT ![idx].Fetching = TRUE,
                                                ![idx].LastMessage = <<>>]
                /\ Returns(<<fetchRepo(idx)>>, EmptyBag)
                /\ UnchangedButStatuses

\* case "F": fetch all repos
Key_F ==
    /\ RoutineKey("F")
    /\ IF ~fetchingAll
       THEN /\ fetchingAll' = TRUE
            /\ statuses' = [i \in Indices |-> [statuses[i] EXCEPT !.Fetching = TRUE]]
            /\ Returns([k \in 1..NRepos |->
                           [fetchRepo(k - 1) EXCEPT !.trigger = "F"]], EmptyBag)
            /\ UNCHANGED <<cursor, grouped, quitting, modalType, modalRepoIndex,
                           modalOptions, modalCursor, modalAfterSetup,
                           textInput, modalTrigger>>
       ELSE ReturnUnchanged

\* case "s": sync (fetch + pull) single repo
Key_s ==
    /\ RoutineKey("s")
    /\ LET idx == selectedIndex
           status == statuses[idx]
       IN  IF status.Fetching \/ status.Rebasing THEN ReturnUnchanged
           ELSE IF needsUpstream(status)
           THEN showUpstreamModal(idx, TRUE)
           ELSE /\ statuses' = [statuses EXCEPT ![idx].Fetching = TRUE,
                                                ![idx].LastMessage = <<>>]
                /\ Returns(<<fetchAndPull(idx)>>, EmptyBag)
                /\ UnchangedButStatuses

\* case "S": sync all repos
Key_S ==
    /\ RoutineKey("S")
    /\ IF ~fetchingAll
       THEN LET eligible == [i \in Indices |->
                                statuses[i].HasUpstream /\ statuses[i].Error = NoErr]
                targets == SelectIndices(NRepos, eligible)
                cmds == [k \in 1..Len(targets) |-> fetchAndPull(targets[k])]
            IN  /\ statuses' = [i \in Indices |->
                                   IF eligible[i]
                                   THEN [statuses[i] EXCEPT !.Fetching = TRUE]
                                   ELSE statuses[i]]
                /\ fetchingAll' = (Len(cmds) > 0)
                /\ Returns(cmds, EmptyBag)
                /\ UNCHANGED <<cursor, grouped, quitting, modalType,
                               modalRepoIndex, modalOptions, modalCursor,
                               modalAfterSetup, textInput, modalTrigger>>
       ELSE ReturnUnchanged

\* case "p": push single repo
Key_p ==
    /\ RoutineKey("p")
    /\ LET idx == selectedIndex
           status == statuses[idx]
       IN  IF status.Pushing THEN ReturnUnchanged
           ELSE IF needsUpstream(status)
           THEN showUpstreamModal(idx, FALSE)
           ELSE IF NeedsPush(status)
           THEN /\ statuses' = [statuses EXCEPT ![idx].Pushing = TRUE,
                                                ![idx].LastMessage = <<>>]
                /\ Returns(<<pushRepo(idx)>>, EmptyBag)
                /\ UnchangedButStatuses
           ELSE ReturnUnchanged

\* Mutant of Key_P: a record that is already pushing is pushed again.
Key_P_NoPushingCheck ==
    /\ RoutineKey("P")
    /\ LET eligible == [i \in Indices |-> NeedsPush(statuses[i])]
           targets == SelectIndices(NRepos, eligible)
           cmds == [k \in 1..Len(targets) |-> pushRepo(targets[k])]
       IN  /\ statuses' = [i \in Indices |->
                              IF eligible[i]
                              THEN [statuses[i] EXCEPT !.Pushing = TRUE,
                                                       !.LastMessage = <<>>]
                              ELSE statuses[i]]
           /\ Returns(cmds, EmptyBag)
           /\ UnchangedButStatuses

\* case "P": push all repos that need pushing
Key_P ==
    /\ RoutineKey("P")
    /\ LET eligible == [i \in Indices |->
                           ~statuses[i].Pushing /\ NeedsPush(statuses[i])]
           targets == SelectIndices(NRepos, eligible)
           cmds == [k \in 1..Len(targets) |-> pushRepo(targets[k])]
       IN  /\ statuses' = [i \in Indices |->
                              IF eligible[i]
                              THEN [statuses[i] EXCEPT !.Pushing = TRUE,
                                                       !.LastMessage = <<>>]
                              ELSE statuses[i]]
           /\ Returns(cmds, EmptyBag)
           /\ UnchangedButStatuses

\* case "r": refresh all statuses
Key_r ==
    /\ RoutineKey("r")
    /\ Returns([k \in 1..NRepos |-> refreshStatus(k - 1)], EmptyBag)
    /\ UNCHANGED <<statuses, cursor, fetchingAll, grouped, quitting, modalType,
                   modalRepoIndex, modalOptions, modalCursor, modalAfterSetup,
                   textInput, modalTrigger>>

\* case "g": toggle grouping by status
Key_g ==
    /\ RoutineKey("g")
    /\ grouped' = ~grouped
    /\ Returns(<<>>, EmptyBag)
    /\ UNCHANGED <<statuses, cursor, fetchingAll, quitting, modalType,
                   modalRepoIndex, modalOptions, modalCursor, modalAfterSetup,
                   textInput, modalTrigger>>

\* case "u": set upstream for current repo
Key_u ==
    /\ RoutineKey("u")
    /\ LET idx == selectedIndex
           status == statuses[idx]
       IN  IF needsUpstream(status)
           THEN showUpstreamModal(idx, FALSE)
           ELSE ReturnUnchanged

\* any key the routine switch does not bind
Key_other ==
    /\ RoutineKey("other")
    /\ ReturnUnchanged

\* ------------------------------------------------------ handleModalKey

\* add-remote modal, case "esc"
AddRemote_esc ==
    /\ ModalKey("esc")
    /\ modalType = ModalAddRemote
    /\ modalType' = ModalNone
    /\ textInput' = [textInput EXCEPT !.Focused = FALSE]
    /\ Returns(<<>>, EmptyBag)
    /\ UNCHANGED <<statuses, cursor, fetchingAll, grouped, quitting,
                   modalRepoIndex, modalOptions, modalCursor, modalAfterSetup,
                   modalTrigger>>

\* Mutant of AddRemote_enter: the input is submitted untrimmed.
AddRemote_enter_NoTrim ==
    /\ ModalKey("enter")
    /\ modalType = ModalAddRemote
    /\ LET url == textInput.Value
       IN  IF url # <<>>
           THEN /\ modalType' = ModalNone
                /\ textInput' = [textInput EXCEPT !.Focused = FALSE]
                /\ Returns(<<addRemote(modalRepoIndex, "origin", url)>>, EmptyBag)
                /\ UNCHANGED <<statuses, cursor, fetchingAll, grouped, quitting,
                               modalRepoIndex, modalOptions, modalCursor,
                               modalAfterSetup, modalTrigger>>
           ELSE ReturnUnchanged

\* add-remote modal, case "enter"
AddRemote_enter ==
    /\ ModalKey("enter")
    /\ modalType = ModalAddRemote
    /\ LET url == TrimSpace(textInput.Value)
       IN  IF url # <<>>
           THEN /\ modalType' = ModalNone
                /\ textInput' = [textInput EXCEPT !.Focused = FALSE]
                /\ Returns(<<addRemote(modalRepoIndex, "origin", url)>>, EmptyBag)
                /\ UNCHANGED <<statuses, cursor, fetchingAll, grouped, quitting,
                               modalRepoIndex, modalOptions, modalCursor,
                               modalAfterSetup, modalTrigger>>
           ELSE ReturnUnchanged

\* add-remote modal, default: the key goes to the text input, which takes a
\* typed character while it is focused.
AddRemote_type(c) ==
    /\ ModalKey(c)
    /\ modalType = ModalAddRemote
    /\ Len(textInput.Value) < MaxInput
    /\ textInput' = IF textInput.Focused
                    THEN [textInput EXCEPT !.Value = Append(@, c)]
                    ELSE textInput
    /\ Returns(<<>>, EmptyBag)
    /\ UNCHANGED <<statuses, cursor, fetchingAll, grouped, quitting, modalType,
                   modalRepoIndex, modalOptions, modalCursor, modalAfterSetup,
                   modalTrigger>>

\* case "esc", "q"
SetUpstream_esc ==
    /\ ModalKey("esc")
    /\ modalType # ModalAddRemote
    /\ modalType' = ModalNone
    /\ modalOptions' = <<>>
    /\ Returns(<<>>, EmptyBag)
    /\ UNCHANGED <<statuses, cursor, fetchingAll, grouped, quitting,
                   modalRepoIndex, modalCursor, modalAfterSetup,
                   textInput, modalTrigger>>

\* case "up", "k"
SetUpstream_up ==
    /\ ModalKey("up")
    /\ modalType # ModalAddRemote
    /\ modalCursor' = IF modalCursor > 0 THEN modalCursor - 1 ELSE modalCursor
    /\ Returns(<<>>, EmptyBag)
    /\ UNCHANGED <<statuses, cursor, fetchingAll, grouped, quitting, modalType,
                   modalRepoIndex, modalOptions, modalAfterSetup,
                   textInput, modalTrigger>>

\* Mutant of SetUpstream_down: the modal cursor moves down without a bound.
SetUpstream_down_Unbounded ==
    /\ ModalKey("down")
    /\ modalType # ModalAddRemote
    /\ modalCursor' = modalCursor + 1
    /\ Returns(<<>>, EmptyBag)
    /\ UNCHANGED <<statuses, cursor, fetchingAll, grouped, quitting, modalType,
                   modalRepoIndex, modalOptions, modalAfterSetup,
                   textInput, modalTrigger>>

\* case "down", "j"
SetUpstream_down ==
    /\ ModalKey("down")
    /\ modalType # ModalAddRemote
    /\ modalCursor' = IF modalCursor < Len(modalOptions) - 1
                      THEN modalCursor + 1 ELSE modalCursor
    /\ Returns(<<>>, EmptyBag)
    /\ UNCHANGED <<statuses, cursor, fetchingAll, grouped, quitting, modalType,
                   modalRepoIndex, modalOptions, modalAfterSetup,
                   textInput, modalTrigger>>

\* case "enter", " "
SetUpstream_enter ==
    /\ ModalKey("enter")
    /\ modalType # ModalAddRemote
    /\ IF modalType = ModalSetUpstream /\ Len(modalOptions) > 0
       THEN LET opt == modalOptions[modalCursor + 1]
            IN  /\ modalType' = ModalNone
                /\ modalOptions' = <<>>
                /\ IF opt.Exists
                   THEN /\ Returns(<<setUpstream(modalRepoIndex, opt.Remote,
                                                 opt.Branch)>>, EmptyBag)
                        /\ UNCHANGED statuses
                   ELSE /\ statuses' = [statuses EXCEPT
                                           ![modalRepoIndex].Pushing = TRUE]
                        /\ Returns(<<pushWithUpstream(modalRepoIndex, opt.Remote,
                                                      opt.Branch)>>, EmptyBag)
                /\ UNCHANGED <<cursor, fetchingAll, grouped, quitting,
                               modalRepoIndex, modalCursor, modalAfterSetup,
                               textInput, modalTrigger>>
       ELSE ReturnUnchanged

\* any key the set-upstream modal does not bind
SetUpstream_other ==
    /\ ModalKey("other")
    /\ modalType # ModalAddRemote
    /\ ReturnUnchanged

\* ------------------------------------------------- completion messages

\* A completion message: the message of the task's closure, with (history)
\* the task builder's name, the key that started its resolution flow and the
\* primitives the closure invoked.
Completion(t, run) ==
    run.msg @@ [task |-> t.kind, trigger |-> t.trigger, calls |-> run.calls]

\* The task t is in flight and this call of Update processes its message.
Completes(t, run) ==
    /\ ~quitting
    /\ panic = ""
    /\ BagIn(t, inflight)
    /\ event' = Completion(t, run)
    /\ UNCHANGED keys

\* Update indexes m.statuses or m.repos out of range while it processes the
\* message of t: the run-time panics before Update returns, so the model the
\* program holds is the one it had (what was written went to Update's copy).
Panics(t) ==
    /\ panic' = "index out of range"
    /\ cmd' = <<>>
    /\ inflight' = inflight (-) SetToBag({t})
    /\ UNCHANGED <<statuses, cursor, fetchingAll, grouped, quitting, modalType,
                   modalRepoIndex, modalOptions, modalCursor, modalAfterSetup,
                   textInput, modalTrigger, world>>

\* Mutant of preserveOperationStates: the probed record replaces the old one
\* as it is.
preserveOperationStates_Clobber(old, new) == new

\* statusUpdatedMsg: the new record with the operation states of the old one.
preserveOperationStates(old, new) ==
    [new EXCEPT !.Fetching = old.Fetching, !.Rebasing = old.Rebasing,
                !.Pushing = old.Pushing, !.LastMessage = old.LastMessage]

\* case statusUpdatedMsg
OnStatusUpdated(t, msg) ==
    /\ statuses' = IF msg.index < NRepos
                   THEN [statuses EXCEPT ![msg.index] =
                            preserveOperationStates(statuses[msg.index], msg.status)]
                   ELSE statuses
    /\ Returns(<<>>, SetToBag({t}))
    /\ UnchangedButStatuses

\* Mutant of OnFetchComplete: a fetch that failed is started again.
OnFetchComplete_RetryOnError(t, msg) ==
    /\ statuses' = [statuses EXCEPT
                       ![msg.index].Fetching = (msg.err # NoErr),
                       ![msg.index].LastMessage =
                           IF msg.err # NoErr THEN <<"fetch failed: ", msg.err>> ELSE @]
    /\ Returns(IF msg.err # NoErr
               THEN <<fetchRepo(msg.index)>>
               ELSE <<refreshStatus(msg.index)>>, SetToBag({t}))
    /\ UnchangedButStatuses

\* case fetchCompleteMsg
OnFetchComplete(t, msg) ==
    IF msg.index >= NRepos THEN Panics(t)
    ELSE LET applied ==
                 IF msg.index < NRepos
                 THEN [statuses EXCEPT
                          ![msg.index].Fetching = FALSE,
                          ![msg.index].LastMessage =
                              IF msg.err # NoErr THEN <<"fetch failed: ", msg.err>> ELSE @]
                 ELSE statuses
             allDone == \A i \in Indices : ~applied[i].Fetching
         IN  /\ statuses' = applied
             /\ fetchingAll' = IF allDone THEN FALSE ELSE fetchingAll
             /\ Returns(<<refreshStatus(msg.index)>>, SetToBag({t}))
             /\ UNCHANGED <<cursor, grouped, quitting, modalType, modalRepoIndex,
                            modalOptions, modalCursor, modalAfterSetup,
                            textInput, modalTrigger>>

\* Mutant of OnPullComplete: the status is refreshed only after a sync that
\* succeeded.
OnPullComplete_NoRefreshOnError(t, msg) ==
    /\ statuses' = [statuses EXCEPT
                       ![msg.index].Rebasing = FALSE,
                       ![msg.index].LastMessage =
                           IF msg.err # NoErr
                           THEN <<"pull failed: ", msg.err>>
                           ELSE <<"synced">>]
    /\ Returns(IF msg.err # NoErr THEN <<>> ELSE <<refreshStatus(msg.index)>>,
               SetToBag({t}))
    /\ UnchangedButStatuses

\* case pullCompleteMsg
OnPullComplete(t, msg) ==
    IF msg.index >= NRepos THEN Panics(t)
    ELSE /\ statuses' = IF msg.index < NRepos
                        THEN [statuses EXCEPT
                                 ![msg.index].Rebasing = FALSE,
                                 ![msg.index].LastMessage =
                                     IF msg.err # NoErr
                                     THEN <<"pull failed: ", msg.err>>
                                     ELSE <<"synced">>]
                        ELSE statuses
         /\ Returns(<<refreshStatus(msg.index)>>, SetToBag({t}))
         /\ UnchangedButStatuses

\* Mutant of OnPushComplete: a push that succeeded in a flow started by s is
\* followed by the sync.
OnPushComplete_ResumeSync(t, msg) ==
    LET resume == modalAfterSetup /\ msg.err = NoErr
    IN  /\ statuses' = [statuses EXCEPT
                           ![msg.index].Pushing = FALSE,
                           ![msg.index].LastMessage =
                               IF msg.err # NoErr
                               THEN <<"push failed: ", msg.err>>
                               ELSE <<"pushed">>,
                           ![msg.index].Fetching = IF resume THEN TRUE ELSE @]
        /\ Returns(IF resume
                   THEN <<refreshStatus(msg.index), fetchAndPull(msg.index)>>
                   ELSE <<refreshStatus(msg.index)>>, SetToBag({t}))
        /\ UnchangedButStatuses

\* Mutant of OnPushComplete: a failed push leaves the message as it was.
OnPushComplete_Silent(t, msg) ==
    /\ statuses' = IF msg.index < NRepos
                   THEN [statuses EXCEPT
                            ![msg.index].Pushing = FALSE,
                            ![msg.index].LastMessage =
                                IF msg.err # NoErr THEN @ ELSE <<"pushed">>]
                   ELSE statuses
    /\ Returns(<<refreshStatus(msg.index)>>, SetToBag({t}))
    /\ UnchangedButStatuses

\* case pushCompleteMsg
OnPushComplete(t, msg) ==
    IF msg.index >= NRepos THEN Panics(t)
    ELSE /\ statuses' = IF msg.index < NRepos
                        THEN [statuses EXCEPT
                                 ![msg.index].Pushing = FALSE,
                                 ![msg.index].LastMessage =
                                     IF msg.err # NoErr
                                     THEN <<"push failed: ", msg.err>>
                                     ELSE <<"pushed">>]
                        ELSE statuses
         /\ Returns(<<refreshStatus(msg.index)>>, SetToBag({t}))
         /\ UnchangedButStatuses

\* Mutant of buildOptions: the push-to-create suggestions are added after the
\* matches instead of only when there is none.
buildOptions_Mixed(msg, branch) ==
    [k \in 1..Len(msg.branches) |->
        [Remote |-> msg.branches[k].Remote, Branch |-> msg.branches[k].Branch,
         Exists |-> TRUE]]
    \o [k \in 1..Len(msg.remotes) |->
           [Remote |-> msg.remotes[k].Name, Branch |-> branch, Exists |-> FALSE]]

\* remotesLoadedMsg: the options built from a discovery result with remotes.
buildOptions(msg, branch) ==
    LET matches == [k \in 1..Len(msg.branches) |->
                       [Remote |-> msg.branches[k].Remote,
                        Branch |-> msg.branches[k].Branch, Exists |-> TRUE]]
    IN  IF Len(matches) = 0
        THEN [k \in 1..Len(msg.remotes) |->
                 [Remote |-> msg.remotes[k].Name, Branch |-> branch,
                  Exists |-> FALSE]]
        ELSE matches

\* case remotesLoadedMsg
OnRemotesLoaded(t, msg) ==
    IF msg.index >= NRepos THEN Panics(t)
    ELSE /\ statuses' = [statuses EXCEPT ![msg.index].Fetching = FALSE]
         /\ modalTrigger' = t.trigger
         /\ IF Len(msg.remotes) = 0
            THEN /\ modalType' = ModalAddRemote
                 /\ modalRepoIndex' = msg.index
                 /\ textInput' = [Value |-> <<>>, Focused |-> TRUE]
                 /\ UNCHANGED <<modalOptions, modalCursor>>
            ELSE /\ modalType' = ModalSetUpstream
                 /\ modalOptions' = buildOptions(msg, statuses[msg.index].Branch)
                 /\ modalCursor' = 0
                 /\ UNCHANGED <<modalRepoIndex, textInput>>
         /\ Returns(<<>>, SetToBag({t}))
         /\ UNCHANGED <<cursor, fetchingAll, grouped, quitting, modalAfterSetup>>

\* case upstreamSetMsg
OnUpstreamSet(t, msg) ==
    IF msg.index >= NRepos THEN Panics(t)
    ELSE LET resume == modalAfterSetup /\ msg.err = NoErr
         IN  /\ statuses' = [statuses EXCEPT
                                ![msg.index].LastMessage =
                                    IF msg.err # NoErr
                                    THEN <<"set upstream failed: ", msg.err>>
                                    ELSE <<"upstream set">>,
                                ![msg.index].Fetching = IF resume THEN TRUE ELSE @]
             /\ Returns(IF resume
                        THEN <<refreshStatus(msg.index), fetchAndPull(msg.index)>>
                        ELSE <<refreshStatus(msg.index)>>, SetToBag({t}))
             /\ UnchangedButStatuses

\* case remoteAddedMsg
OnRemoteAdded(t, msg) ==
    IF msg.index >= NRepos THEN Panics(t)
    ELSE /\ IF msg.err # NoErr
            THEN /\ statuses' = [statuses EXCEPT
                                    ![msg.index].LastMessage =
                                        <<"add remote failed: ", msg.err>>]
                 /\ Returns(<<refreshStatus(msg.index)>>, SetToBag({t}))
            ELSE /\ statuses' = [statuses EXCEPT
                                    ![msg.index].LastMessage = <<"remote added">>,
                                    ![msg.index].Fetching = TRUE]
                 /\ Returns(<<fetchThenShowUpstream(msg.index)>>, SetToBag({t}))
         /\ UnchangedButStatuses

\* ------------------------------- a task completes and Update gets its message

\* The repository a task's closure captured: repository index of the
\* configuration, or a repository that is not configured.
RepoAt(index) ==
    IF index \in Indices THEN repos[index]
    ELSE [Path |-> <<"home", "stray">>, Name |-> Base(<<"home", "stray">>)]

RefreshCompletes ==
    \E t \in BagToSet(inflight) :
        /\ t.kind = "refreshStatus"
        /\ \E status \in ProbedStatuses(RepoAt(t.index).Path,
                                         RepoAt(t.index).Name) :
               LET run == refreshStatusCmd(t, status)
               IN  Completes(t, run) /\ OnStatusUpdated(t, run.msg)

FetchCompletes ==
    \E t \in BagToSet(inflight), fetchErr \in FetchResults :
        /\ t.kind = "fetchRepo"
        /\ LET run == fetchRepoCmd(t, fetchErr)
           IN  Completes(t, run) /\ OnFetchComplete(t, run.msg)

SyncCompletes ==
    \E t \in BagToSet(inflight), fetchErr \in FetchResults,
       pullErr \in PullResults :
        /\ t.kind = "fetchAndPull"
        /\ LET run == fetchAndPullCmd(t, fetchErr, pullErr)
           IN  Completes(t, run) /\ OnPullComplete(t, run.msg)

PushCompletes ==
    \E t \in BagToSet(inflight), pushErr \in PushResults :
        /\ t.kind = "pushRepo"
        /\ LET run == pushRepoCmd(t, pushErr)
           IN  Completes(t, run) /\ OnPushComplete(t, run.msg)

PushWithUpstreamCompletes ==
    \E t \in BagToSet(inflight), pushErr \in PushResults :
        /\ t.kind = "pushWithUpstream"
        /\ LET run == pushWithUpstreamCmd(t, pushErr)
           IN  Completes(t, run) /\ OnPushComplete(t, run.msg)

LoadRemotesCompletes ==
    \E t \in BagToSet(inflight), found \in Discoveries :
        /\ t.kind = "loadRemotesForUpstream"
        /\ LET run == loadRemotesForUpstreamCmd(t, found)
           IN  Completes(t, run) /\ OnRemotesLoaded(t, run.msg)

SetUpstreamCompletes ==
    \E t \in BagToSet(inflight), err \in SetUpstreamResults :
        /\ t.kind = "setUpstream"
        /\ LET run == setUpstreamCmd(t, err)
           IN  Completes(t, run) /\ OnUpstreamSet(t, run.msg)

AddRemoteCompletes ==
    \E t \in BagToSet(inflight), err \in AddRemoteResults :
        /\ t.kind = "addRemote"
        /\ LET run == addRemoteCmd(t, err)
           IN  Completes(t, run) /\ OnRemoteAdded(t, run.msg)

FetchThenShowUpstreamCompletes ==
    \E t \in BagToSet(inflight), fetchErr \in FetchResults,
       found \in Discoveries :
        /\ t.kind = "fetchThenShowUpstream"
        /\ LET run == fetchThenShowUpstreamCmd(t, fetchErr, found)
           IN  Completes(t, run) /\ OnRemotesLoaded(t, run.msg)

\* ------------------------------------------------------- specification

Next ==
    \/ Key_q \/ Key_up \/ Key_down
    \/ Key_f \/ Key_F \/ Key_s \/ Key_S \/ Key_p \/ Key_P
    \/ Key_r \/ Key_g \/ Key_u \/ Key_other
    \/ AddRemote_esc \/ AddRemote_enter
    \/ \E c \in TypedChars : AddRemote_type(c)
    \/ SetUpstream_esc \/ SetUpstream_up \/ SetUpstream_down
    \/ SetUpstream_enter \/ SetUpstream_other
    \/ RefreshCompletes \/ FetchCompletes \/ SyncCompletes \/ PushCompletes
    \/ PushWithUpstreamCompletes \/ LoadRemotesCompletes
    \/ SetUpstreamCompletes \/ AddRemoteCompletes
    \/ FetchThenShowUpstreamCompletes

Spec == Init /\ [][Next]_vars

\* ------------------------------------------ specification: display order

\* The base names of the repositories of the examined configurations; two
\* configured paths may have the same base name.
OrderNames == {"a", "b", "c"}

\* The model once every initial refresh of a configuration of OrderRepos
\* repositories has been applied: each record is what GetStatus returned for
\* its path, nothing is in flight, the list is grouped.
InitOrder ==
    /\ statuses \in
          [0..(OrderRepos - 1) ->
              UNION {GetStatus(<<"home", n>>, Base(<<"home", n>>)) :
                        n \in OrderNames}]
    /\ cursor = 0
    /\ fetchingAll = FALSE
    /\ grouped = TRUE
    /\ quitting = FALSE
    /\ modalType = ModalNone
    /\ modalRepoIndex = 0
    /\ modalOptions = <<>>
    /\ modalCursor = 0
    /\ modalAfterSetup = FALSE
    /\ textInput = [Value |-> <<>>, Focused |-> FALSE]
    /\ modalTrigger = ""
    /\ inflight = EmptyBag
    /\ event = [type |-> "Init"]
    /\ cmd = <<>>
    /\ keys = MaxKeys
    /\ panic = ""
    /\ world = NotTracked

\* The operator switches between the grouped and the configured order.
NextOrder == Key_g

SpecOrder == InitOrder /\ [][NextOrder]_vars

\* ------------------------------ specification: out-of-range completions

\* One task of every builder for the index len(m.statuses), which no
\* repository has: its completion message is the input Update is examined on.
StrayTasks ==
    {refreshStatus(NRepos), fetchRepo(NRepos), fetchAndPull(NRepos),
     pushRepo(NRepos),
     Task("loadRemotesForUpstream", NRepos, <<"main">>, "", <<>>, "u"),
     Task("setUpstream", NRepos, <<"main">>, "origin", <<>>, "u"),
     Task("pushWithUpstream", NRepos, <<"main">>, "origin", <<>>, "u"),
     Task("addRemote", NRepos, <<>>, "origin", <<"x">>, "u"),
     Task("fetchThenShowUpstream", NRepos, <<"main">>, "", <<>>, "u")}

\* The model after the initial refreshes, with the completion message of one
\* stray task about to be delivered.
InitStray ==
    /\ statuses \in
          {sts \in [Indices ->
                       UNION {ProbedStatuses(repos[i].Path, repos[i].Name) :
                                 i \in Indices}] :
              \A i \in Indices : sts[i].Name = repos[i].Name}
    /\ cursor = 0
    /\ fetchingAll = FALSE
    /\ grouped = TRUE
    /\ quitting = FALSE
    /\ modalType = ModalNone
    /\ modalRepoIndex = 0
    /\ modalOptions = <<>>
    /\ modalCursor = 0
    /\ modalAfterSetup = FALSE
    /\ textInput = [Value |-> <<>>, Focused |-> FALSE]
    /\ modalTrigger = ""
    /\ \E t \in StrayTasks : inflight = SetToBag({t})
    /\ event = [type |-> "Init"]
    /\ cmd = <<>>
    /\ keys = MaxKeys
    /\ panic = ""
    /\ world = NotTracked

\* The operator issues no input; the tasks in flight complete.
NextStray ==
    \/ RefreshCompletes \/ FetchCompletes \/ SyncCompletes \/ PushCompletes
    \/ PushWithUpstreamCompletes \/ LoadRemotesCompletes
    \/ SetUpstreamCompletes \/ AddRemoteCompletes
    \/ FetchThenShowUpstreamCompletes

SpecStray == InitStray /\ [][NextStray]_vars

\* ------------------------------------- specification: tasks that complete

\* Spec with the scheduling of the runtime: every task runs in its own
\* goroutine and its message is delivered to Update, so as long as a task is
\* in flight a completion message is eventually processed (provided the git
\* command of the task returns).
SpecLive == Init /\ [][Next]_vars /\ WF_vars(NextStray)

\* ------------------- specification: the working copies behind the records

\* What is followed of a working copy: it is on branch main and tracks an
\* upstream, Ahead commits ahead of it and Behind commits behind it (as of
\* the last fetch).
WorldFacts == [Ahead : 0..MaxCount, Behind : 0..MaxCount]

\* git.GetStatus on the working copy of repository i as it is now.
Probe(i) ==
    [NewStatus(repos[i].Path, repos[i].Name) EXCEPT
        !.Branch = <<"main">>, !.HasUpstream = TRUE,
        !.Ahead = world[i].Ahead, !.Behind = world[i].Behind]

\* The closure of task t runs in its goroutine and returns result; its
\* message is processed by a later call of Update.
Runs(t, result) ==
    /\ ~quitting
    /\ panic = ""
    /\ BagIn(t, inflight)
    /\ t.result = NotRun
    /\ inflight' = (inflight (-) SetToBag({t}))
                       (+) SetToBag({[t EXCEPT !.result = <<result>>]})
    /\ UNCHANGED <<statuses, cursor, fetchingAll, grouped, quitting, modalType,
                   modalRepoIndex, modalOptions, modalCursor, modalAfterSetup,
                   textInput, modalTrigger, event, cmd, keys, panic>>

\* refreshStatus closure: git.GetStatus reads the working copy.
RefreshRuns ==
    \E t \in BagToSet(inflight) :
        /\ t.kind = "refreshStatus"
        /\ Runs(t, Probe(t.index))
        /\ UNCHANGED world

\* fetchRepo closure: a git fetch that succeeds moves the remote-tracking
\* branch to wherever the upstream is now.
FetchRuns ==
    \E t \in BagToSet(inflight), fetchErr \in FetchResults,
       behind \in 0..MaxCount :
        /\ t.kind = "fetchRepo"
        /\ Runs(t, fetchErr)
        /\ world' = IF fetchErr = NoErr
                    THEN [world EXCEPT ![t.index].Behind = behind]
                    ELSE world

\* fetchAndPull closure: after the fetch, a git pull --rebase that succeeds
\* leaves the working copy not behind its upstream.
SyncRuns ==
    \E t \in BagToSet(inflight), fetchErr \in FetchResults,
       pullErr \in PullResults, behind \in 0..MaxCount :
        /\ t.kind = "fetchAndPull"
        /\ Runs(t, [fetchErr |-> fetchErr, pullErr |-> pullErr])
        /\ world' = IF fetchErr # NoErr THEN world
                    ELSE IF pullErr # NoErr
                    THEN [world EXCEPT ![t.index].Behind = behind]
                    ELSE [world EXCEPT ![t.index].Behind = 0]

\* pushRepo closure: a git push succeeds only when the working copy is not
\* behind, and leaves it not ahead.
PushRuns ==
    \E t \in BagToSet(inflight), pushErr \in PushResults :
        /\ t.kind = "pushRepo"
        /\ pushErr = NoErr => world[t.index].Behind = 0
        /\ Runs(t, pushErr)
        /\ world' = IF pushErr = NoErr
                    THEN [world EXCEPT ![t.index].Ahead = 0]
                    ELSE world

\* Update processes the message of a task whose closure has run.
RefreshDelivers ==
    \E t \in BagToSet(inflight) :
        /\ t.kind = "refreshStatus"
        /\ t.result # NotRun
        /\ LET run == refreshStatusCmd(t, t.result[1])
           IN  Completes(t, run) /\ OnStatusUpdated(t, run.msg)

FetchDelivers ==
    \E t \in BagToSet(inflight) :
        /\ t.kind = "fetchRepo"
        /\ t.result # NotRun
        /\ LET run == fetchRepoCmd(t, t.result[1])
           IN  Completes(t, run) /\ OnFetchComplete(t, run.msg)

SyncDelivers ==
    \E t \in BagToSet(inflight) :
        /\ t.kind = "fetchAndPull"
        /\ t.result # NotRun
        /\ LET run == fetchAndPullCmd(t, t.result[1].fetchErr,
                                      t.result[1].pullErr)
           IN  Completes(t, run) /\ OnPullComplete(t, run.msg)

PushDelivers ==
    \E t \in BagToSet(inflight) :
        /\ t.kind = "pushRepo"
        /\ t.result # NotRun
        /\ LET run == pushRepoCmd(t, t.result[1])
           IN  Completes(t, run) /\ OnPushComplete(t, run.msg)

\* The model once the initial refreshes have been applied to working copies
\* that all track an upstream: every record shows its working copy.
InitWorld ==
    /\ world \in [Indices -> WorldFacts]
    /\ statuses = [i \in Indices |-> Probe(i)]
    /\ cursor = 0
    /\ fetchingAll = FALSE
    /\ grouped = TRUE
    /\ quitting = FALSE
    /\ modalType = ModalNone
    /\ modalRepoIndex = 0
    /\ modalOptions = <<>>
    /\ modalCursor = 0
    /\ modalAfterSetup = FALSE
    /\ textInput = [Value |-> <<>>, Focused |-> FALSE]
    /\ modalTrigger = ""
    /\ inflight = EmptyBag
    /\ event = [type |-> "Init"]
    /\ cmd = <<>>
    /\ keys = MaxKeys
    /\ panic = ""

\* The operator fetches, syncs, pushes and refreshes; the closures run and
\* their messages are processed, in any order.
NextWorld ==
    \/ Key_f \/ Key_s \/ Key_p \/ Key_r
    \/ RefreshRuns \/ FetchRuns \/ SyncRuns \/ PushRuns
    \/ RefreshDelivers \/ FetchDelivers \/ SyncDelivers \/ PushDelivers

SpecWorld == InitWorld /\ [][NextWorld]_vars

\* ------------------------ specification: upstream-resolution flows

\* The model once the initial refreshes have been applied to working copies
\* none of which tracks an upstream: every key that asks for an operation
\* starts an upstream-resolution flow.
InitFlow ==
    /\ statuses = [i \in Indices |->
                      [NewStatus(repos[i].Path, repos[i].Name) EXCEPT
                          !.Branch = <<"main">>]]
    /\ cursor = 0
    /\ fetchingAll = FALSE
    /\ grouped = TRUE
    /\ quitting = FALSE
    /\ modalType = ModalNone
    /\ modalRepoIndex = 0
    /\ modalOptions = <<>>
    /\ modalCursor = 0
    /\ modalAfterSetup = FALSE
    /\ textInput = [Value |-> <<>>, Focused |-> FALSE]
    /\ modalTrigger = ""
    /\ inflight = EmptyBag
    /\ event = [type |-> "Init"]
    /\ cmd = <<>>
    /\ keys = MaxFlowKeys
    /\ panic = ""
    /\ world = NotTracked

\* The keys that start a flow or move to another repository, the keys of the
\* two modals, and the completions of the tasks of a flow.
NextFlow ==
    \/ Key_f \/ Key_s \/ Key_u \/ Key_down
    \/ AddRemote_esc \/ AddRemote_enter
    \/ \E c \in TypedChars : AddRemote_type(c)
    \/ SetUpstream_esc \/ SetUpstream_enter
    \/ RefreshCompletes \/ SyncCompletes
    \/ PushWithUpstreamCompletes \/ LoadRemotesCompletes
    \/ SetUpstreamCompletes \/ AddRemoteCompletes
    \/ FetchThenShowUpstreamCompletes

SpecFlow == InitFlow /\ [][NextFlow]_vars

\* =============================================================== properties

\* The last call of Update processed key k.
KeyEvent(k) == event.type = "tea.KeyMsg" /\ event.key = k

\* The tasks the last call of Update dispatched for repository i.
Dispatched(i) == {k \in DOMAIN cmd : cmd[k].index = i}

\* The number of tasks of one kind the last call dispatched for repository i.
DispatchedOf(kind, i) == Cardinality({k \in Dispatched(i) : cmd[k].kind = kind})

\* Repository i has a task of one of these kinds in flight.
Outstanding(kinds, i) ==
    \E t \in BagToSet(inflight) : t.index = i /\ t.kind \in kinds

\* The task kinds whose closure calls git.Fetch, git.Pull, git.Push or
\* git.PushWithUpstream.
DirectKinds ==
    {"fetchRepo", "fetchAndPull", "pushRepo", "pushWithUpstream",
     "fetchThenShowUpstream"}

\* C1 (as stated): for every repository whose record has HasUpstream = false, a
\* trigger of fetch, sync or push (f, s, p, F, S, P) dispatches no task for it
\* other than the discovery task loadRemotesForUpstream.
C1_AsStated ==
    \A i \in Indices :
        (/\ event.type = "tea.KeyMsg"
         /\ event.key \in {"f", "s", "p", "F", "S", "P"}
         /\ ~statuses[i].HasUpstream)
        => \A k \in Dispatched(i) : cmd[k].kind = "loadRemotesForUpstream"

\* C1 (amended): for every repository whose record has HasUpstream = false and
\* no error, the keys f, s, p, S and P dispatch no task for it other than the
\* discovery task, and f, s or p on such a record that is not busy dispatches
\* exactly that task.
C1_NoDirectPrimitive ==
    /\ \A i \in Indices :
        (/\ event.type = "tea.KeyMsg"
         /\ event.key \in {"f", "s", "p", "S", "P"}
         /\ ~statuses[i].HasUpstream
         /\ statuses[i].Error = NoErr)
        => \A k \in Dispatched(i) :
              /\ cmd[k].kind = "loadRemotesForUpstream"
              /\ cmd[k].kind \notin DirectKinds
    /\ (/\ event.type = "tea.KeyMsg"
        /\ event.key \in {"f", "s", "p"}
        /\ ~statuses[selectedIndex].HasUpstream
        /\ statuses[selectedIndex].Error = NoErr
        /\ ~statuses[selectedIndex].Fetching
        /\ ~statuses[selectedIndex].Pushing)
       => /\ Len(cmd) = 1
          /\ cmd[1].kind = "loadRemotesForUpstream"
          /\ cmd[1].index = selectedIndex

\* C1 witness: s was pressed on a probed record without upstream and the
\* discovery task, and nothing else, was dispatched for it.
C1_Witness ==
    /\ KeyEvent("s")
    /\ ~statuses[selectedIndex].HasUpstream
    /\ statuses[selectedIndex].Branch # <<>>
    /\ Len(cmd) = 1
    /\ cmd[1].kind = "loadRemotesForUpstream"
    /\ cmd[1].index = selectedIndex

\* C2 (as stated): in every reachable state and for every record, at most one
\* of Fetching, Rebasing, Pushing is true.
C2_AtMostOneFlag ==
    \A i \in Indices :
        /\ ~(statuses[i].Fetching /\ statuses[i].Pushing)
        /\ ~(statuses[i].Fetching /\ statuses[i].Rebasing)
        /\ ~(statuses[i].Rebasing /\ statuses[i].Pushing)

\* C3 (as stated): a flag of a record is true only while a task of the
\* operation that set it is in flight for that record.
C3_FlagImpliesOutstanding ==
    \A i \in Indices :
        /\ statuses[i].Fetching =>
              Outstanding({"fetchRepo", "fetchAndPull", "fetchThenShowUpstream"}, i)
        /\ statuses[i].Rebasing => Outstanding({"fetchAndPull"}, i)
        /\ statuses[i].Pushing => Outstanding({"pushRepo", "pushWithUpstream"}, i)

\* C4 (as stated): when the completion of a set-upstream task is processed, one
\* sync task is dispatched for that repository if the key that started the
\* resolution flow was s and set-upstream succeeded, and otherwise none; no
\* fetch or push task is dispatched.
C4_ResumeIffSyncTrigger ==
    event.type = "upstreamSetMsg" =>
        /\ DispatchedOf("fetchAndPull", event.index) =
              IF event.trigger = "s" /\ event.err = NoErr THEN 1 ELSE 0
        /\ DispatchedOf("fetchRepo", event.index) = 0
        /\ DispatchedOf("pushRepo", event.index) = 0

\* C5 (as stated): when set-upstream succeeded in a flow started by f, a fetch
\* of that repository is dispatched, and in a flow started by s, a sync.
C5_ContinuesOriginalAction ==
    (event.type = "upstreamSetMsg" /\ event.err = NoErr) =>
        /\ event.trigger = "f" =>
              \E k \in Dispatched(event.index) :
                  cmd[k].kind \in {"fetchRepo", "fetchAndPull"}
        /\ event.trigger = "s" => DispatchedOf("fetchAndPull", event.index) = 1

\* C6: a sync task invokes Fetch first; when Fetch fails it invokes nothing
\* else and its message carries Fetch's error; when Fetch succeeds it invokes
\* Pull once, after Fetch, and its message carries Pull's result.
C6_FetchBeforePull ==
    event.type = "pullCompleteMsg" =>
        /\ event.task = "fetchAndPull"
        /\ event.calls[1].fn = "Fetch"
        /\ IF event.calls[1].err # NoErr
           THEN /\ Len(event.calls) = 1
                /\ event.err = event.calls[1].err
           ELSE /\ Len(event.calls) = 2
                /\ event.calls[2].fn = "Pull"
                /\ event.err = event.calls[2].err

\* C6 witness: a sync whose fetch failed completed, and the record shows the
\* fetch error.
C6_Witness ==
    /\ event.type = "pullCompleteMsg"
    /\ event.calls = <<Call("Fetch", "fetch error")>>
    /\ statuses[event.index].LastMessage = <<"pull failed: ", "fetch error">>

\* C7: pressing f or s while the selected record is fetching, or p while it
\* is pushing, dispatches nothing and changes nothing of the model.
C7_BusyKeyIsNoOp ==
    [][(/\ event'.type = "tea.KeyMsg"
        /\ modalType = ModalNone
        /\ \/ event'.key \in {"f", "s"} /\ statuses[selectedIndex].Fetching
           \/ event'.key = "p" /\ statuses[selectedIndex].Pushing)
       => /\ cmd' = <<>>
          /\ UNCHANGED <<statuses, cursor, fetchingAll, grouped, quitting,
                         modalType, modalRepoIndex, modalOptions, modalCursor,
                         modalAfterSetup, textInput, inflight>>]_vars

\* C7 witness: f was pressed on a record that is fetching, with its fetch
\* still in flight, and nothing was dispatched.
C7_Witness ==
    /\ KeyEvent("f")
    /\ modalType = ModalNone
    /\ statuses[selectedIndex].Fetching
    /\ Outstanding({"fetchRepo"}, selectedIndex)
    /\ cmd = <<>>

\* The sync facts of a record.
SyncFacts(s) ==
    [Branch |-> s.Branch, Ahead |-> s.Ahead, Behind |-> s.Behind,
     HasUpstream |-> s.HasUpstream, Error |-> s.Error]

\* C8: applying a status-refresh result to record i replaces its sync facts by
\* the probed ones and leaves its three flags and LastMessage, every other
\* record, fetchingAll, the cursor and the modal state as they were.
C8_RefreshPreservesFlags ==
    [][event'.type = "statusUpdatedMsg" =>
          LET i == event'.index
          IN  /\ SyncFacts(statuses'[i]) = SyncFacts(event'.status)
              /\ statuses'[i].Fetching = statuses[i].Fetching
              /\ statuses'[i].Rebasing = statuses[i].Rebasing
              /\ statuses'[i].Pushing = statuses[i].Pushing
              /\ statuses'[i].LastMessage = statuses[i].LastMessage
              /\ \A j \in Indices \ {i} : statuses'[j] = statuses[j]
              /\ UNCHANGED <<fetchingAll, cursor, modalType, modalRepoIndex,
                             modalOptions, modalCursor, modalAfterSetup,
                             textInput>>]_vars

\* C8 witness: a refresh result was applied to a record that is pushing and
\* shows a message, and the record has the probed facts.
C8_Witness ==
    /\ event.type = "statusUpdatedMsg"
    /\ statuses[event.index].Pushing
    /\ statuses[event.index].LastMessage # <<>>
    /\ statuses[event.index].HasUpstream

\* C9: the options built from a discovery result with at least one remote are
\* one Exists = TRUE option per matching branch when there is a match, and
\* otherwise one Exists = FALSE option per remote, in remote order, with the
\* record's branch; Exists is the same for all options of a list.
C9_OptionsMatchOrSuggest ==
    (event.type = "remotesLoadedMsg" /\ Len(event.remotes) > 0) =>
        /\ modalType = ModalSetUpstream
        /\ IF Len(event.branches) > 0
           THEN /\ Len(modalOptions) = Len(event.branches)
                /\ \A k \in DOMAIN modalOptions :
                      /\ modalOptions[k].Exists
                      /\ modalOptions[k].Remote = event.branches[k].Remote
                      /\ modalOptions[k].Branch = event.branches[k].Branch
           ELSE /\ Len(modalOptions) = Len(event.remotes)
                /\ \A k \in DOMAIN modalOptions :
                      /\ ~modalOptions[k].Exists
                      /\ modalOptions[k].Remote = event.remotes[k].Name
                      /\ modalOptions[k].Branch = statuses[event.index].Branch
        /\ \A k, l \in DOMAIN modalOptions :
              modalOptions[k].Exists = modalOptions[l].Exists

\* C9 witness: of the remotes origin and upstream only upstream has the branch
\* main, and the one option is to track upstream/main.
C9_Witness ==
    /\ event.type = "remotesLoadedMsg"
    /\ Len(event.remotes) = 2
    /\ modalOptions =
          <<[Remote |-> "upstream", Branch |-> <<"main">>, Exists |-> TRUE]>>

\* The priority class of a record: error 0, behind 1, ahead 2, synced 3, no
\* upstream 4.
Class(s) ==
    IF s.Error # NoErr THEN 0
    ELSE IF ~s.HasUpstream THEN 4
    ELSE IF s.Behind > 0 THEN 1
    ELSE IF s.Ahead > 0 THEN 2
    ELSE 3

\* The class and name of the records of sts, read in the order ord.
OrderKeys(sts, ord) ==
    [k \in 1..Len(ord) |-> <<Class(sts[ord[k]]), sts[ord[k]].Name>>]

\* C10: displayOrder is a permutation of the record indices; ungrouped it is
\* 0..n-1; grouped it is ordered by class (error, behind, ahead, synced, no
\* upstream; ahead and behind counts as behind) and by name within a class,
\* and the classes and names it shows do not depend on the configuration
\* order of the records.
C10_DisplayOrder ==
    LET n == Cardinality(DOMAIN statuses)
        ord == displayOrder
    IN  /\ Len(ord) = n
        /\ {ord[k] : k \in 1..n} = DOMAIN statuses
        /\ ~grouped => ord = [k \in 1..n |-> k - 1]
        /\ grouped =>
              /\ \A k \in 1..(n - 1) :
                    LET a == statuses[ord[k]]
                        b == statuses[ord[k + 1]]
                    IN  \/ Class(a) < Class(b)
                        \/ Class(a) = Class(b) /\ ~StrLess(b.Name, a.Name)
              /\ \A p \in Permutations(DOMAIN statuses) :
                    LET shuffled == [i \in DOMAIN statuses |-> statuses[p[i]]]
                    IN  OrderKeys(shuffled, displayOrderOf(shuffled, TRUE))
                           = OrderKeys(statuses, ord)

\* C10 witness: grouping was switched off and on again over the configuration
\* (ahead, ahead and behind, error), which is displayed in reverse.
C10_Witness ==
    /\ KeyEvent("g")
    /\ grouped
    /\ NeedsPush(statuses[0]) /\ ~NeedsPull(statuses[0])
    /\ NeedsPush(statuses[1]) /\ NeedsPull(statuses[1])
    /\ statuses[2].Error # NoErr
    /\ displayOrder[1] = 2 /\ displayOrder[2] = 1 /\ displayOrder[3] = 0

\* C11 (as stated): a record that carries an error is never the target of a
\* sync or push task dispatched by s, p, S or P, and r dispatches a refresh for
\* every repository, the ones with an error included.
C11_ErrorNeverTarget ==
    /\ (event.type = "tea.KeyMsg" /\ event.key \in {"s", "p", "S", "P"}) =>
          \A k \in DOMAIN cmd :
              cmd[k].kind \in {"fetchAndPull", "pushRepo"}
                  => statuses[cmd[k].index].Error = NoErr
    /\ KeyEvent("r") =>
          \A i \in Indices : DispatchedOf("refreshStatus", i) = 1

\* C12: a key processed while a modal is active leaves the cursor, the
\* grouping and the quitting flag alone, and the tasks it dispatches are only
\* addRemote, setUpstream or pushWithUpstream for modalRepoIndex.
C12_ModalSuppressesRoutineKeys ==
    [][(event'.type = "tea.KeyMsg" /\ modalType # ModalNone)
       => /\ UNCHANGED <<cursor, grouped, quitting>>
          /\ \A k \in DOMAIN cmd' :
                /\ cmd'[k].kind \in {"addRemote", "setUpstream",
                                     "pushWithUpstream"}
                /\ cmd'[k].index = modalRepoIndex]_vars

\* C12 witness: enter in the set-upstream modal dispatched push-with-upstream
\* for the modal's repository.
C12_Witness ==
    /\ KeyEvent("enter")
    /\ Len(cmd) = 1
    /\ cmd[1].kind = "pushWithUpstream"
    /\ cmd[1].index = modalRepoIndex
    /\ modalType = ModalNone

\* C13: there is one record per configured repository, and record i has the
\* path and the name of repository i.
C13_RecordIdentity ==
    /\ DOMAIN statuses = DOMAIN repos
    /\ \A i \in DOMAIN repos :
          /\ statuses[i].Path = repos[i].Path
          /\ statuses[i].Name = repos[i].Name

\* C13 witness: a probe that returned an error was applied, and after a later
\* failed fetch the record still has its identity.
C13_Witness ==
    /\ event.type = "fetchCompleteMsg"
    /\ event.err # NoErr
    /\ statuses[event.index].Error # NoErr
    /\ statuses[event.index].Name = repos[event.index].Name

\* The message types of task completions.
CompletionTypes ==
    {"statusUpdatedMsg", "fetchCompleteMsg", "pullCompleteMsg",
     "pushCompleteMsg", "remotesLoadedMsg", "upstreamSetMsg", "remoteAddedMsg"}

\* The errors the primitives invoked by the task of message e returned.
FailedCalls(e) ==
    {e.calls[k].err : k \in {j \in DOMAIN e.calls : e.calls[j].err # NoErr}}

\* The failure text the handlers write for the tasks of each builder.
FailureText(kind) ==
    CASE kind = "fetchRepo" -> "fetch failed: "
      [] kind = "fetchAndPull" -> "pull failed: "
      [] kind \in {"pushRepo", "pushWithUpstream"} -> "push failed: "
      [] kind = "setUpstream" -> "set upstream failed: "
      [] kind = "addRemote" -> "add remote failed: "
      [] OTHER -> "none"

\* C14 (as stated): after the completion message of a task one of whose
\* primitives failed is processed, the target record's LastMessage is the
\* failure text of the operation with that error, for every task but
\* fetchThenShowUpstream (a failed probe is in the record's Error).
C14_AsStated ==
    (/\ event.type \in CompletionTypes
     /\ FailedCalls(event) # {}
     /\ event.task # "fetchThenShowUpstream")
    => \E err \in FailedCalls(event) :
          statuses[event.index].LastMessage = <<FailureText(event.task), err>>

\* C14 (amended): processing the completion message of a fetch, sync, push,
\* push-with-upstream, set-upstream or add-remote task that finished with an
\* error writes the failure text of the operation, with the error, to the
\* target record's LastMessage; processing the message of a discovery task
\* (loadRemotesForUpstream, fetchThenShowUpstream) one of whose primitives
\* failed leaves the record's LastMessage and Error as they were.
C14_ErrorsReported ==
    [][(event'.type \in CompletionTypes /\ FailedCalls(event') # {})
       => LET i == event'.index
          IN  IF event'.task \in {"loadRemotesForUpstream",
                                  "fetchThenShowUpstream"}
              THEN /\ statuses'[i].LastMessage = statuses[i].LastMessage
                   /\ statuses'[i].Error = statuses[i].Error
              ELSE \E err \in FailedCalls(event') :
                      statuses'[i].LastMessage
                          = <<FailureText(event'.task), err>>]_vars

\* C14 witness: a set-upstream task failed and the record shows it.
C14_Witness ==
    /\ event.type = "upstreamSetMsg"
    /\ event.err # NoErr
    /\ statuses[event.index].LastMessage
          = <<"set upstream failed: ", event.err>>

\* C15 (as stated): once every dispatched task has completed and its message
\* has been processed, no record has Fetching, Rebasing or Pushing set and
\* fetchingAll is false.
C15_QuiescentNoFlags ==
    inflight = EmptyBag =>
        /\ ~fetchingAll
        /\ \A i \in Indices :
              /\ ~statuses[i].Fetching
              /\ ~statuses[i].Rebasing
              /\ ~statuses[i].Pushing

\* A fetch task launched by a fetch-all is in the bag b.
FetchAllOutstanding(b) ==
    \E t \in BagToSet(b) : t.kind = "fetchRepo" /\ t.trigger = "F"

\* C16 (as stated): fetchingAll does not change from true to false while a
\* fetch launched by the fetch-all is outstanding, and it is false once the
\* completion of the last fetch of the fetch-all has been processed.
C16_LastFetchClearsFetchingAll ==
    [][/\ (fetchingAll /\ ~fetchingAll') => ~FetchAllOutstanding(inflight')
       /\ (/\ event'.type = "fetchCompleteMsg"
           /\ event'.trigger = "F"
           /\ ~FetchAllOutstanding(inflight'))
          => ~fetchingAll']_vars

C18_MessageClearedAtStart ==
    \A k \in DOMAIN cmd :
        cmd[k].kind \in {"fetchRepo", "fetchAndPull", "pushRepo",
                         "pushWithUpstream"}
            => statuses[cmd[k].index].LastMessage = <<>>

\* Record s is one push-all pushes.
PushEligible(s) ==
    s.HasUpstream /\ s.Error = NoErr /\ s.Ahead > 0 /\ ~s.Pushing

\* C19: P dispatches one push task for each repository whose record has an
\* upstream, no error, Ahead > 0 and Pushing = false, and no other task; it
\* sets Pushing on those records and leaves every other record as it was.
C19_PushAllTargets ==
    [][(event'.type = "tea.KeyMsg" /\ event'.key = "P"
        /\ modalType = ModalNone)
       => /\ \A k \in DOMAIN cmd' : cmd'[k].kind = "pushRepo"
          /\ \A i \in Indices :
                IF PushEligible(statuses[i])
                THEN /\ Cardinality({k \in DOMAIN cmd' : cmd'[k].index = i}) = 1
                     /\ statuses'[i].Pushing
                ELSE /\ {k \in DOMAIN cmd' : cmd'[k].index = i} = {}
                     /\ statuses'[i] = statuses[i]]_vars

\* C19 witness: P pushed the one record that is ahead and not pushing, and
\* left alone a record that was already being pushed.
C19_Witness ==
    /\ KeyEvent("P")
    /\ Len(cmd) = 1
    /\ cmd[1].kind = "pushRepo"
    /\ statuses[cmd[1].index].Pushing
    /\ \E j \in Indices \ {cmd[1].index} :
          statuses[j].Pushing /\ Outstanding({"pushRepo"}, j)

\* C20: processing a fetch, pull, push or set-upstream completion message
\* dispatches exactly one refresh task, for the repository of the message,
\* whether the message carries an error or not.
C20_CompletionChainsRefresh ==
    (/\ event.type \in {"fetchCompleteMsg", "pullCompleteMsg",
                        "pushCompleteMsg", "upstreamSetMsg"}
     /\ event.index \in Indices)
    => /\ DispatchedOf("refreshStatus", event.index) = 1
       /\ \A k \in DOMAIN cmd :
             cmd[k].kind = "refreshStatus" => cmd[k].index = event.index

\* C20 witness: a sync that failed was followed by a refresh of its
\* repository.
C20_Witness ==
    /\ event.type = "pullCompleteMsg"
    /\ event.err # NoErr
    /\ cmd = <<refreshStatus(event.index)>>

\* C21 (as stated): a discovery result without remotes (also when listing the
\* remotes or the branches failed) opens the add-remote modal for the index
\* of the result and leaves the record's Error and LastMessage as they were;
\* as long as that modal is open its target stays the same; and enter on a
\* non-blank input dispatches one addRemote task, of the remote "origin" with
\* the trimmed input, for the modal's target.
C21_ZeroRemotesOpensAddRemote ==
    [][/\ (event'.type = "remotesLoadedMsg" /\ Len(event'.remotes) = 0)
          => LET i == event'.index
             IN  /\ modalType' = ModalAddRemote
                 /\ modalRepoIndex' = i
                 /\ statuses'[i].Error = statuses[i].Error
                 /\ statuses'[i].LastMessage = statuses[i].LastMessage
       /\ (modalType = ModalAddRemote /\ modalType' = ModalAddRemote)
          => modalRepoIndex' = modalRepoIndex
       /\ (/\ event'.type = "tea.KeyMsg"
           /\ event'.key = "enter"
           /\ modalType = ModalAddRemote
           /\ TrimSpace(textInput.Value) # <<>>)
          => /\ Len(cmd') = 1
             /\ cmd'[1].kind = "addRemote"
             /\ cmd'[1].index = modalRepoIndex
             /\ cmd'[1].remote = "origin"
             /\ cmd'[1].url = TrimSpace(textInput.Value)]_vars

\* C22 (as stated): the discovery that follows a successful add-remote (the
\* fetchThenShowUpstream task) ends in the set-upstream modal, never in the
\* add-remote modal again.
C22_NoReturnToAddRemote ==
    (event.type = "remotesLoadedMsg" /\ event.task = "fetchThenShowUpstream")
    => modalType = ModalSetUpstream

\* C23 (as stated): once the message of an add-remote task that failed has
\* been processed, the record's LastMessage is the add-remote failure text,
\* no modal is open, no flag of the record was set, and one refresh of that
\* repository and no other task was dispatched.
C23_AddRemoteFailureStops ==
    [][(event'.type = "remoteAddedMsg" /\ event'.err # NoErr)
       => LET i == event'.index
          IN  /\ statuses' = [statuses EXCEPT ![i].LastMessage =
                                 <<"add remote failed: ", event'.err>>]
              /\ modalType' = ModalNone
              /\ cmd' = <<refreshStatus(i)>>]_vars

\* C24 (as stated): esc in the set-upstream or the add-remote modal closes the
\* modal, leaves an empty option list, dispatches no task and changes no
\* record.
C24_CancelDiscardsFlow ==
    [][(event'.type = "tea.KeyMsg" /\ event'.key = "esc"
        /\ modalType # ModalNone)
       => /\ modalType' = ModalNone
          /\ modalOptions' = <<>>
          /\ cmd' = <<>>
          /\ statuses' = statuses]_vars

C26_CursorsInRange ==
    /\ cursor \in 0..(NRepos - 1)
    /\ cursor + 1 \in DOMAIN displayOrder
    /\ selectedIndex \in Indices
    /\ modalType = ModalSetUpstream =>
          /\ Len(modalOptions) >= 1
          /\ modalCursor \in 0..(Len(modalOptions) - 1)

\* C26 witness: the cursor is on the last repository and, in the set-upstream
\* modal, down moved the modal cursor to the last of two options.
C26_Witness ==
    /\ KeyEvent("down")
    /\ cursor = NRepos - 1
    /\ modalType = ModalSetUpstream
    /\ Len(modalOptions) = 2
    /\ modalCursor = 1

\* C27 (as stated): the Exists = FALSE options built from a discovery result
\* carry the branch name the discovery task queried the remote branches for
\* (the branch captured when the task was dispatched).
C27_OptionsCarryQueriedBranch ==
    [][(/\ event'.type = "remotesLoadedMsg"
        /\ Len(event'.remotes) > 0
        /\ Len(event'.branches) = 0)
       => \A t \in BagToSet(inflight) :
             (/\ t.kind = event'.task
              /\ t.index = event'.index
              /\ inflight = inflight' (+) SetToBag({t}))
             => \A k \in DOMAIN modalOptions' :
                   modalOptions'[k].Branch = t.branch]_vars

\* The largest number of completion messages the chain started by a task of
\* this builder can still produce, the task's own message included: a refresh
\* or a discovery ends its chain; a fetch, sync, push or add-remote is followed
\* by one task that ends it; a set-upstream by a refresh and at most one sync
\* with its refresh.
Work(kind) ==
    CASE kind \in {"refreshStatus", "loadRemotesForUpstream",
                   "fetchThenShowUpstream"} -> 1
      [] kind \in {"fetchRepo", "fetchAndPull", "pushRepo", "pushWithUpstream",
                   "addRemote"} -> 2
      [] kind = "setUpstream" -> 4

RECURSIVE SumWork(_, _)
SumWork(b, tasks) ==
    IF tasks = {} THEN 0
    ELSE LET t == CHOOSE x \in tasks : TRUE
         IN  b[t] * Work(t.kind) + SumWork(b, tasks \ {t})

\* The work outstanding in a bag of tasks.
OutstandingWork(b) == SumWork(b, BagToSet(b))

\* C28: processing a completion message strictly lowers the outstanding work
\* (so with no key event at most OutstandingWork(inflight) more messages are
\* processed before nothing is outstanding); it dispatches at most two tasks
\* and at most one sync; and when a primitive of the completed task failed it
\* dispatches nothing but one refresh at most, so that no primitive is
\* invoked again without a key event.
C28_ChainsAreFinite ==
    [][event'.type \in CompletionTypes
       => /\ OutstandingWork(inflight') < OutstandingWork(inflight)
          /\ Len(cmd') <= 2
          /\ Cardinality({k \in DOMAIN cmd' : cmd'[k].kind = "fetchAndPull"}) <= 1
          /\ \A k \in DOMAIN cmd' : Work(cmd'[k].kind) < Work(event'.task)
          /\ FailedCalls(event') # {}
                => /\ Len(cmd') <= 1
                   /\ \A k \in DOMAIN cmd' :
                         cmd'[k] = refreshStatus(event'.index)]_vars

\* Under SpecLive the outstanding work is used up again and again: whenever
\* the key events stop, a state with nothing outstanding is reached (or the
\* program has quit).
EventuallyNothingOutstanding == []<>(inflight = EmptyBag \/ quitting)

\* C28 witness: a sync whose fetch failed completed; only the refresh of its
\* repository is outstanding, and neither fetch nor pull is started again.
C28_Witness ==
    /\ event.type = "pullCompleteMsg"
    /\ FailedCalls(event) = {"fetch error"}
    /\ inflight = SetToBag({refreshStatus(event.index)})
    /\ OutstandingWork(inflight) = 1

\* C29 (as stated): whenever no task is outstanding for a repository (every
\* operation on it has completed and every refresh result has been applied),
\* the sync facts of its record are those of its working copy.
C29_RecordReflectsRepository ==
    \A i \in Indices :
        (~\E t \in BagToSet(inflight) : t.index = i)
        => SyncFacts(statuses[i]) = SyncFacts(Probe(i))

\* C30 (as stated): when a discovery result has opened the set-upstream modal
\* with its options, the modal's target index is the index of that result.
C30_ModalTargetsDiscoveredRepo ==
    (event.type = "remotesLoadedMsg" /\ modalType = ModalSetUpstream)
    => modalRepoIndex = event.index

\* The task kinds that end in a remotesLoadedMsg: the discovery started by
\* showUpstreamModal and the one that follows a successful add-remote.
DiscoveryKinds == {"loadRemotesForUpstream", "fetchThenShowUpstream"}

\* The number of tasks of these kinds in a bag of tasks.
RECURSIVE CountKinds(_, _, _)
CountKinds(b, tasks, kinds) ==
    IF tasks = {} THEN 0
    ELSE LET t == CHOOSE x \in tasks : TRUE
         IN  (IF t.kind \in kinds THEN b[t] ELSE 0)
             + CountKinds(b, tasks \ {t}, kinds)

\* The number of discovery tasks outstanding.
DiscoveriesOutstanding(b) == CountKinds(b, BagToSet(b), DiscoveryKinds)

\* C31 (as stated): while a modal is open, a call of Update that processes
\* anything but a key event leaves the modal's kind, target index, option
\* list and cursor as they were; and at most one discovery task is
\* outstanding at any time.
C31_ModalOwnedByKeys ==
    [][/\ (modalType # ModalNone /\ event'.type # "tea.KeyMsg")
          => UNCHANGED <<modalType, modalRepoIndex, modalOptions, modalCursor>>
       /\ DiscoveriesOutstanding(inflight') <= 1]_vars

\* The task kinds whose closure calls git.Fetch.
FetchKinds == {"fetchRepo", "fetchAndPull", "fetchThenShowUpstream"}

\* The number of tasks that call git.Fetch outstanding for repository i.
FetchesOutstanding(b, i) ==
    CountKinds(b, {t \in BagToSet(b) : t.index = i}, FetchKinds)

\* C32 (as stated): no repository ever has two tasks that call git.Fetch
\* outstanding; and when processing a completion message turns a record's
\* Fetching from TRUE to FALSE, no task that calls git.Fetch is outstanding
\* for that record.
C32_OneFetchPerRepo ==
    [][\A i \in Indices :
          /\ FetchesOutstanding(inflight', i) <= 1
          /\ (/\ event'.type \in CompletionTypes
              /\ statuses[i].Fetching
              /\ ~statuses'[i].Fetching)
             => FetchesOutstanding(inflight', i) = 0]_vars

\* C33: enter in the add-remote modal with an input that is empty or only
\* whitespace dispatches nothing and leaves the modal, its target index, the
\* input and the records as they were; enter with any other input closes the
\* modal and dispatches one task, the addRemote of the trimmed input; and no
\* other call of Update dispatches an addRemote task.
C33_BlankUrlKeepsModal ==
    [][LET submit == /\ event'.type = "tea.KeyMsg"
                     /\ event'.key = "enter"
                     /\ modalType = ModalAddRemote
           url == TrimSpace(textInput.Value)
       IN  /\ (submit /\ url = <<>>)
              => /\ cmd' = <<>>
                 /\ inflight' = inflight
                 /\ modalType' = ModalAddRemote
                 /\ modalRepoIndex' = modalRepoIndex
                 /\ textInput' = textInput
                 /\ statuses' = statuses
           /\ (submit /\ url # <<>>)
              => /\ modalType' = ModalNone
                 /\ Len(cmd') = 1
                 /\ cmd'[1].kind = "addRemote"
                 /\ cmd'[1].url = url
                 /\ inflight' = inflight (+) SetToBag({cmd'[1]})
           /\ (\E k \in DOMAIN cmd' : cmd'[k].kind = "addRemote")
              => (submit /\ url # <<>>)]_vars

\* C33 witness: enter was pressed on an input of whitespace only; the
\* add-remote modal is still open and nothing was dispatched.
C33_Witness ==
    /\ KeyEvent("enter")
    /\ modalType = ModalAddRemote
    /\ textInput.Value # <<>>
    /\ TrimSpace(textInput.Value) = <<>>
    /\ cmd = <<>>

====
